---- MODULE Spec2Model ----
(***************************************************************************)
(* Model of blackbirdv2.py: the catalog freshness check (checkUpdates,     *)
(* downloadList, readList, hashJSON, doSyncRequest) followed by one        *)
(* concurrent probing run (verifyUsername, fetchResults, doAsyncRequest).  *)
(*                                                                         *)
(* JSON values are ordered: an object is a sequence of <<key, value>>      *)
(* pairs in insertion order, as a Python dict is.  Texts (the catalog      *)
(* file, HTTP bodies) are sequences of tokens; json.dump / json.dumps      *)
(* produce them and json.load / response.json() parse them back.           *)
(***************************************************************************)
EXTENDS Integers, Sequences, FiniteSets, TLC

\* Largest number of sites in a catalog of the model.
MaxSites == 2

(***************************************************************************)
(* The JSON universe of the model.                                         *)
(***************************************************************************)
\* Python None / JSON null.
None == [t |-> "null", kv |-> <<>>]

Obj(kv) == [t |-> "obj", kv |-> kv]

\* Site names and hosts; site i of the pool uses the i-th of each.
Names == <<"A", "B", "C", "D", "E">>
Hosts == <<"a.example/", "b.example/u/", "c.example/", "d.example/", "e.example/">>

\* uri_check of pool site i: the placeholder is inside the template, missing
\* or at its end.
UriCheck(i) ==
    IF i % 3 = 1 THEN <<Hosts[i], "{account}", "/profile">>
    ELSE IF i % 3 = 2 THEN <<Hosts[i], "static">>
    ELSE <<Hosts[i], "{account}">>

\* A SiteDefinition object; layout 2 has its keys in the other insertion order.
Site(i, layout) ==
    IF layout = 1
    THEN Obj(<< <<"name", Names[i]>>, <<"uri_check", UriCheck(i)>> >>)
    ELSE Obj(<< <<"uri_check", UriCheck(i)>>, <<"name", Names[i]>> >>)

\* The sites sequence of a catalog: pool sites 1..n, or n..1 when rev.
SiteSeq(n, rev, layout) ==
    [k \in 1..n |-> Site(IF rev THEN n + 1 - k ELSE k, layout)]

\* A Catalog document: a "sites" array plus an opaque top-level field.
Catalog(n, rev, layout) ==
    IF layout = 1
    THEN Obj(<< <<"sites", SiteSeq(n, rev, layout)>>, <<"license", "CC">> >>)
    ELSE Obj(<< <<"license", "CC">>, <<"sites", SiteSeq(n, rev, layout)>> >>)

Catalogs ==
    {Catalog(n, rev, layout) : n \in 0..MaxSites, rev \in BOOLEAN, layout \in 1..2}

\* The JSON body a probed site may answer with.
FoundDoc == Obj(<< <<"found", "true">> >>)

DocUniverse == Catalogs \cup {None, FoundDoc}

(***************************************************************************)
(* json.dump / json.dumps: a document to its text.                         *)
(***************************************************************************)
\* Keys of the universe in the order sort_keys=True puts them (code points).
KeyOrder == <<"found", "license", "name", "sites", "uri_check">>

HasKey(kv, k) == \E j \in 1..Len(kv) : kv[j][1] = k

Get(kv, k) == kv[CHOOSE j \in 1..Len(kv) : kv[j][1] = k][2]

RECURSIVE SortFrom(_, _)
SortFrom(kv, i) ==
    IF i > Len(KeyOrder) THEN <<>>
    ELSE (IF HasKey(kv, KeyOrder[i])
          THEN << <<KeyOrder[i], Get(kv, KeyOrder[i])>> >>
          ELSE <<>>) \o SortFrom(kv, i + 1)

\* The pairs of an object sorted by key.
SortKeys(kv) == SortFrom(kv, 1)

RECURSIVE DumpValue(_, _, _), DumpPairs(_, _), DumpList(_, _), Dumps(_, _)

\* The text of a list of objects, comma separated.
DumpList(l, sort_keys) ==
    IF l = <<>> THEN <<>>
    ELSE Dumps(Head(l), sort_keys)
         \o (IF Len(l) > 1 THEN <<",">> ELSE <<>>)
         \o DumpList(Tail(l), sort_keys)

\* The text of the value stored under key k.
DumpValue(k, v, sort_keys) ==
    IF k = "sites" THEN <<"[">> \o DumpList(v, sort_keys) \o <<"]">>
    ELSE IF k = "uri_check" THEN v
    ELSE <<v>>

DumpPairs(kv, sort_keys) ==
    IF kv = <<>> THEN <<>>
    ELSE <<kv[1][1], ":">> \o DumpValue(kv[1][1], kv[1][2], sort_keys)
         \o (IF Len(kv) > 1 THEN <<",">> ELSE <<>>)
         \o DumpPairs(Tail(kv), sort_keys)

\* json.dumps(doc, sort_keys=sort_keys) as a token sequence.
Dumps(doc, sort_keys) ==
    IF doc.t = "null" THEN <<"null">>
    ELSE <<"{">>
         \o DumpPairs(IF sort_keys THEN SortKeys(doc.kv) ELSE doc.kv, sort_keys)
         \o <<"}">>

\* json.dump(doc, f, indent=4, ensure_ascii=False): insertion order kept.
Dump(doc) == Dumps(doc, FALSE)

\* A body that is no JSON document.
Html == <<"<html>">>

\* json.load / response.json(): the document a text denotes, if it is one.
IsJSON(text) == \E d \in DocUniverse : Dump(d) = text

Loads(text) == CHOOSE d \in DocUniverse : Dump(d) = text


(***************************************************************************)
(* The environment: what one HTTP exchange can turn out to be.             *)
(***************************************************************************)
\* requests.request / session.request raising (timeout, refused, DNS, TLS).
NetErr == [kind |-> "neterror", body |-> <<>>]

Ok(body) == [kind |-> "ok", body |-> body]

\* What a GET of listURL may produce.
ListResponses == {NetErr, Ok(Html)} \cup {Ok(Dump(d)) : d \in Catalogs}

\* What a GET of a site's uri_check may produce.
SiteResponses == {NetErr, Ok(Html), Ok(Dump(FoundDoc))}

Usernames == {<<"alice">>, <<"bob">>}

\* The catalog file: absent, or holding a text.
NoFile == [exists |-> FALSE, text |-> <<>>]

FileOf(text) == [exists |-> TRUE, text |-> text]

VARIABLES
    pc,               \* position of the session in the program
    file,             \* the file named listFileName
    err,              \* the exception that ended the session, or "none"
    printed,          \* what print() has written
    data,             \* checkUpdates: data (lines 81 and 83); fetchResults: data
    currentListHash,  \* checkUpdates: currentListHash
    remoteListHash,   \* checkUpdates: remoteListHash
    response,         \* checkUpdates: the exchange of line 83
    dlResponse,       \* downloadList: the exchange of line 45
    parsedData,       \* downloadList: parsedData
    file0,            \* history: the file when checkUpdates started
    wrote,            \* history: listFileName was opened for writing
    username,         \* fetchResults: username
    tasks,            \* fetchResults: tasks, one record per coroutine
    order,            \* history: task indexes in order of completion
    results,          \* fetchResults: results
    aborted,          \* history: the tasks outstanding when the run was aborted
    platforms,        \* PlatformURLManager.platforms
    categories,       \* PlatformURLManager.categories
    ret,              \* PlatformURLManager: what the last call returned
    lastOp,           \* history: the last PlatformURLManager call
    prePlatforms,     \* history: platforms before the last call
    preCategories,    \* history: categories before the last call
    configFile,       \* the document in the file at config_path
    loadedFrom,       \* history: the branch load_platforms took
    hashed,           \* hashJSON alone: the two documents hashed
    digests           \* hashJSON alone: their digests

vars == <<pc, file, err, printed, data, currentListHash, remoteListHash,
          response, dlResponse, parsedData, file0, wrote, username, tasks,
          order, results, aborted, platforms, categories, ret, lastOp,
          prePlatforms, preCategories, configFile, loadedFrom, hashed,
          digests>>

checkVars == <<data, currentListHash, remoteListHash, response, dlResponse,
               parsedData, file0, wrote>>

fetchVars == <<username, tasks, order, results, aborted>>

\* The state of the session of blackbirdv2.py.
sessionVars == <<pc, file, err, printed, checkVars, fetchVars>>

\* The state of a PlatformURLManager.
pmVars == <<platforms, categories, ret, lastOp, prePlatforms, preCategories,
            configFile, loadedFrom>>

\* The arguments and results of hashJSON taken alone.
hashVars == <<hashed, digests>>

\* What the session of blackbirdv2.py never touches.
otherVars == <<pmVars, hashVars>>

NoHash == <<>>

\* An Optional[str] argument: None, or a string.
NoneStr == [given |-> FALSE, v |-> <<>>]

Some(v) == [given |-> TRUE, v |-> v]

\* What a PlatformURLManager call returned: nothing yet, None, a bool, a str.
NoRet == [t |-> "none", v |-> <<>>]

\* No file at config_path.
NoConfig == [exists |-> FALSE, platforms |-> <<>>, categories |-> <<>>]

\* No PlatformURLManager call has been made.
NoOp == [op |-> "none", p |-> "", tpl |-> <<>>, cats |-> NoneStr,
         user |-> <<>>, fallback |-> NoneStr]
NoResponse == [kind |-> "none", body |-> <<>>]
NoUser == <<>>

(***************************************************************************)
(* The pure functions of blackbirdv2.py.                                   *)
(***************************************************************************)
\* Variant of doSyncRequest without the try/except around response.json().
doSyncRequest_strict(ex) ==
    IF ex.kind = "neterror"
    THEN [raised |-> "NetworkError", response |-> ex, parsedData |-> None]
    ELSE IF ~IsJSON(ex.body)
    THEN [raised |-> "JSONDecodeError", response |-> ex, parsedData |-> None]
    ELSE [raised |-> "none", response |-> ex, parsedData |-> Loads(ex.body)]

\* doSyncRequest: requests.request raises on a network failure; a body that
\* does not decode leaves parsedData None.
doSyncRequest(ex) ==
    IF ex.kind = "neterror"
    THEN [raised |-> "NetworkError", response |-> ex, parsedData |-> None]
    ELSE [raised |-> "none", response |-> ex,
          parsedData |-> IF IsJSON(ex.body) THEN Loads(ex.body) ELSE None]

\* readList: open() raises when the file is missing, json.load when the text
\* is no JSON document.
readList(f) ==
    IF ~f.exists THEN [raised |-> "FileNotFoundError", data |-> None]
    ELSE IF ~IsJSON(f.text) THEN [raised |-> "JSONDecodeError", data |-> None]
    ELSE [raised |-> "none", data |-> Loads(f.text)]

\* hashlib.md5(...).hexdigest(): a digest, taken to be free of collisions on
\* the texts of the model.
md5(text) == <<"md5">> \o text

\* Variant of hashJSON without sort_keys=True.
hashJSON_unsorted(jsonData) == md5(Dumps(jsonData, FALSE))

hashJSON(jsonData) == md5(Dumps(jsonData, TRUE))

\* Variant of json_dump that passes sort_keys=True.
json_dump_sorted(doc) == Dumps(doc, TRUE)

\* Line 47: json.dump(parsedData, f, indent=4, ensure_ascii=False).
json_dump(doc) == Dumps(doc, FALSE)

\* Variants of ListChanged: always update, never update.
ListChanged_always(current, remote) == TRUE

ListChanged_never(current, remote) == FALSE

\* Line 85: the test that decides an update.
ListChanged(current, remote) == current # remote

(***************************************************************************)
(* The initial state: the session is about to call checkUpdates; the file  *)
(* is absent or holds what an earlier session left there: a catalog, the   *)
(* null an undecodable download stored, or nothing after an interrupted    *)
(* write.                                                                  *)
(***************************************************************************)
InitialFiles ==
    {NoFile, FileOf(<<>>)} \cup {FileOf(Dump(d)) : d \in Catalogs \cup {None}}

Init ==
    /\ pc = "cu_start"
    /\ file \in InitialFiles
    /\ file0 = file
    /\ err = "none"
    /\ printed = <<>>
    /\ data = None
    /\ currentListHash = NoHash
    /\ remoteListHash = NoHash
    /\ response = NoResponse
    /\ dlResponse = NoResponse
    /\ parsedData = None
    /\ wrote = FALSE
    /\ username = NoUser
    /\ tasks = <<>>
    /\ order = <<>>
    /\ results = <<>>
    /\ aborted = {}
    /\ platforms = <<>>
    /\ categories = <<>>
    /\ ret = NoRet
    /\ lastOp = NoOp
    /\ prePlatforms = <<>>
    /\ preCategories = <<>>
    /\ configFile = NoConfig
    /\ loadedFrom = "none"
    /\ hashed = <<>>
    /\ digests = <<>>

\* An uncaught exception ends the session with a traceback.
Raise(e) ==
    /\ pc' = "raised"
    /\ err' = e

(***************************************************************************)
(* checkUpdates                                                            *)
(***************************************************************************)
\* Line 79, and the print of the branch taken.
CheckUpdates_isfile ==
    /\ pc = "cu_start"
    /\ IF file.exists
       THEN /\ printed' = Append(printed, "[-] Checking for updates...")
            /\ pc' = "cu_read"
       ELSE /\ printed' = Append(printed, "[!] Downloading WhatsMyName list")
            /\ pc' = "dl_fetch"
    /\ UNCHANGED <<file, err, checkVars, fetchVars>>
    /\ UNCHANGED otherVars

\* Lines 81-82.
CheckUpdates_read ==
    /\ pc = "cu_read"
    /\ LET r == readList(file) IN
       IF r.raised # "none"
       THEN /\ Raise(r.raised)
            /\ UNCHANGED <<data, currentListHash>>
       ELSE /\ data' = r.data
            /\ currentListHash' = hashJSON(r.data)
            /\ pc' = "cu_fetch"
            /\ err' = err
    /\ UNCHANGED <<file, printed, remoteListHash, response, dlResponse,
                   parsedData, file0, wrote, fetchVars>>
    /\ UNCHANGED otherVars

\* Lines 83-84.
CheckUpdates_fetch ==
    /\ pc = "cu_fetch"
    /\ \E ex \in ListResponses :
         LET r == doSyncRequest(ex) IN
         IF r.raised # "none"
         THEN /\ Raise(r.raised)
              /\ response' = r.response
              /\ UNCHANGED <<data, remoteListHash>>
         ELSE /\ response' = r.response
              /\ data' = r.parsedData
              /\ remoteListHash' = hashJSON(r.parsedData)
              /\ pc' = "cu_cmp"
              /\ err' = err
    /\ UNCHANGED <<file, printed, currentListHash, dlResponse, parsedData,
                   file0, wrote, fetchVars>>
    /\ UNCHANGED otherVars

\* Lines 85-89.
CheckUpdates_compare ==
    /\ pc = "cu_cmp"
    /\ IF ListChanged(currentListHash, remoteListHash)
       THEN /\ printed' = Append(printed, "[!] Updating...")
            /\ pc' = "dl_fetch"
       ELSE /\ printed' = Append(printed, "[+] List is up to date")
            /\ pc' = "cu_done"
    /\ UNCHANGED <<file, err, checkVars, fetchVars>>
    /\ UNCHANGED otherVars

(***************************************************************************)
(* downloadList                                                            *)
(***************************************************************************)
\* Line 45.
DownloadList_fetch ==
    /\ pc = "dl_fetch"
    /\ \E ex \in ListResponses :
         LET r == doSyncRequest(ex) IN
         IF r.raised # "none"
         THEN /\ Raise(r.raised)
              /\ dlResponse' = r.response
              /\ parsedData' = parsedData
         ELSE /\ dlResponse' = r.response
              /\ parsedData' = r.parsedData
              /\ pc' = "dl_open"
              /\ err' = err
    /\ UNCHANGED <<file, printed, data, currentListHash, remoteListHash,
                   response, file0, wrote, fetchVars>>
    /\ UNCHANGED otherVars

\* Line 46: open(listFileName, "w") creates or truncates the file.
DownloadList_open ==
    /\ pc = "dl_open"
    /\ file' = FileOf(<<>>)
    /\ wrote' = TRUE
    /\ pc' = "dl_dump"
    /\ UNCHANGED <<err, printed, data, currentListHash, remoteListHash,
                   response, dlResponse, parsedData, file0, fetchVars>>
    /\ UNCHANGED otherVars

\* Line 47: json.dump writes the document chunk by chunk; the with block
\* closes the file after the last one and downloadList returns.
DownloadList_dump ==
    /\ pc = "dl_dump"
    /\ LET text == json_dump(parsedData)
           n == Len(file.text) + 1
       IN /\ file' = FileOf(SubSeq(text, 1, n))
          /\ pc' = IF n = Len(text) THEN "cu_done" ELSE "dl_dump"
    /\ UNCHANGED <<err, printed, checkVars, fetchVars>>
    /\ UNCHANGED otherVars

\* Line 47: a write fails (disk full, I/O error); the with block closes the
\* file as it is and the exception leaves checkUpdates.
DownloadList_ioerror ==
    /\ pc = "dl_dump"
    /\ Raise("IOError")
    /\ UNCHANGED <<file, printed, checkVars, fetchVars>>
    /\ UNCHANGED otherVars

\* The process is killed while the file is open for writing.
Crash ==
    /\ pc = "dl_dump"
    /\ pc' = "crashed"
    /\ UNCHANGED <<file, err, printed, checkVars, fetchVars>>
    /\ UNCHANGED otherVars

NextCheck ==
    \/ CheckUpdates_isfile
    \/ CheckUpdates_read
    \/ CheckUpdates_fetch
    \/ CheckUpdates_compare
    \/ DownloadList_fetch
    \/ DownloadList_open
    \/ DownloadList_dump
    \/ DownloadList_ioerror
    \/ Crash


(***************************************************************************)
(* verifyUsername, fetchResults, doAsyncRequest                            *)
(***************************************************************************)
\* Variant of replace: nothing is substituted.
replace_none(s, old, new) == s

RECURSIVE replace(_, _, _)
\* str.replace(old, new) on a token sequence: every occurrence, one pass.
replace(s, old, new) ==
    IF s = <<>> THEN <<>>
    ELSE (IF Head(s) = old THEN new ELSE <<Head(s)>>) \o replace(Tail(s), old, new)

NoResult == [kind |-> "none", of |-> 0, url |-> <<>>, parsedData |-> None]

\* Lines 61-67: the coroutine object built for one site; nothing runs yet.
Coroutine(site, user) ==
    [url |-> replace(Get(site.kv, "uri_check"), "{account}", user),
     st |-> "created", ex |-> NoResponse, out |-> NoResult]

\* Lines 29-35: what doAsyncRequest returns once the exchange succeeded.
AsyncReturn(i, url, ex) ==
    [kind |-> "ok", of |-> i, url |-> url,
     parsedData |-> IF IsJSON(ex.body) THEN Loads(ex.body) ELSE None]

\* Line 28 raising out of doAsyncRequest.
AsyncRaise(i) == [kind |-> "exc", of |-> i, url |-> <<>>, parsedData |-> None]

\* Variant of return_exceptions: the default of asyncio.gather.
return_exceptions_off == FALSE

\* Line 68: the return_exceptions argument of asyncio.gather.
return_exceptions == TRUE

\* Variant of GatherResults: outcomes in order of completion, as
\* asyncio.as_completed yields them.
GatherResults_completion(ts, ord) == [k \in 1..Len(ts) |-> ts[ord[k]].out]

\* asyncio.gather: the outcomes in the order of the awaitables passed.
GatherResults(ts, ord) == [i \in 1..Len(ts) |-> ts[i].out]

\* Variant of Runnable: each coroutine is awaited inside the loop.
Runnable_eager(i) == pc \in {"fr_loop", "fr_gather", "fr_join"}

\* A task runs only while the caller is suspended in the await of line 68,
\* and only after gather has scheduled it.
Runnable(i) == pc = "fr_join" /\ tasks[i].st # "created"

\* Variant of CatalogInUse: the file is read again in every iteration.
CatalogInUse_reread == readList(file).data

\* Line 60: the loop iterates over the document line 57 read.
CatalogInUse == data

AllDone == \A i \in 1..Len(tasks) : tasks[i].st = "done"

\* Line 73: the session goes on to verifyUsername; checkUpdates' locals are gone.
VerifyUsername_start ==
    /\ pc = "cu_done"
    /\ \E u \in Usernames : username' = u
    /\ pc' = "fr_read"
    /\ data' = None
    /\ currentListHash' = NoHash
    /\ remoteListHash' = NoHash
    /\ response' = NoResponse
    /\ dlResponse' = NoResponse
    /\ parsedData' = None
    /\ file0' = NoFile
    /\ wrote' = FALSE
    /\ UNCHANGED <<file, err, printed, tasks, order, results>>
    /\ UNCHANGED <<aborted, otherVars>>

\* Line 57.
FetchResults_read ==
    /\ pc = "fr_read"
    /\ LET r == readList(file) IN
       IF r.raised # "none"
       THEN /\ Raise(r.raised)
            /\ data' = data
       ELSE /\ data' = r.data
            /\ pc' = "fr_loop"
            /\ err' = err
    /\ UNCHANGED <<file, printed, currentListHash, remoteListHash, response,
                   dlResponse, parsedData, file0, wrote, fetchVars>>
    /\ UNCHANGED otherVars

\* Lines 60-67: one iteration of the loop, or its end.
FetchResults_loop ==
    /\ pc = "fr_loop"
    /\ IF CatalogInUse.t = "null"
       THEN /\ Raise("TypeError")
            /\ tasks' = tasks
       ELSE IF ~HasKey(CatalogInUse.kv, "sites")
       THEN /\ Raise("KeyError")
            /\ tasks' = tasks
       ELSE LET sites == Get(CatalogInUse.kv, "sites")
                i == Len(tasks) + 1
            IN /\ err' = err
               /\ IF i <= Len(sites)
                  THEN /\ tasks' = Append(tasks, Coroutine(sites[i], username))
                       /\ pc' = "fr_loop"
                  ELSE /\ tasks' = tasks
                       /\ pc' = "fr_gather"
    /\ UNCHANGED <<file, printed, checkVars, username, order, results>>
    /\ UNCHANGED <<aborted, otherVars>>

\* Line 68, the call: gather wraps every coroutine in a task and schedules it.
FetchResults_gather ==
    /\ pc = "fr_gather"
    /\ tasks' = [i \in 1..Len(tasks) |->
                   IF tasks[i].st = "created"
                   THEN [tasks[i] EXCEPT !.st = "scheduled"]
                   ELSE tasks[i]]
    /\ pc' = "fr_join"
    /\ UNCHANGED <<file, err, printed, checkVars, username, order, results>>
    /\ UNCHANGED <<aborted, otherVars>>

\* Lines 27-28: task i starts, prints, and suspends in session.request.
DoAsyncRequest_send(i) ==
    /\ Runnable(i)
    /\ tasks[i].st \in {"created", "scheduled"}
    /\ tasks' = [tasks EXCEPT ![i].st = "request"]
    /\ printed' = Append(printed, "Sending request...")
    /\ UNCHANGED <<pc, file, err, checkVars, username, order, results>>
    /\ UNCHANGED <<aborted, otherVars>>

\* Line 28 resumes: the exchange failed (the coroutine raises) or a response
\* arrived and the task suspends in response.json().
DoAsyncRequest_response(i) ==
    /\ Runnable(i)
    /\ tasks[i].st = "request"
    /\ \E ex \in SiteResponses :
         IF ex.kind = "neterror"
         THEN /\ tasks' = [tasks EXCEPT ![i].st = "done", ![i].ex = ex,
                                          ![i].out = AsyncRaise(i)]
              /\ order' = Append(order, i)
         ELSE /\ tasks' = [tasks EXCEPT ![i].st = "body", ![i].ex = ex]
              /\ order' = order
    /\ UNCHANGED <<pc, file, err, printed, checkVars, username, results>>
    /\ UNCHANGED <<aborted, otherVars>>

\* Lines 29-35: the body is decoded, or not, and the coroutine returns.
DoAsyncRequest_json(i) ==
    /\ Runnable(i)
    /\ tasks[i].st = "body"
    /\ tasks' = [tasks EXCEPT ![i].st = "done",
                              ![i].out = AsyncReturn(i, tasks[i].url, tasks[i].ex)]
    /\ order' = Append(order, i)
    /\ UNCHANGED <<pc, file, err, printed, checkVars, username, results>>
    /\ UNCHANGED <<aborted, otherVars>>

\* Line 68, the await: the gather future completes. Without
\* return_exceptions the first exception of a task is raised in the caller.
FetchResults_join ==
    /\ pc = "fr_join"
    /\ IF ~return_exceptions /\ \E i \in 1..Len(tasks) : tasks[i].out.kind = "exc"
       THEN /\ Raise("NetworkError")
            /\ results' = results
       ELSE /\ AllDone
            /\ results' = GatherResults(tasks, order)
            /\ pc' = "fr_exit"
            /\ err' = err
    /\ UNCHANGED <<file, printed, checkVars, username, tasks, order>>
    /\ UNCHANGED <<aborted, otherVars>>

\* What a task cancelled before or in the await of line 28 ends with.
Cancelled(i) == [kind |-> "cancelled", of |-> i, url |-> <<>>, parsedData |-> None]

\* What the cancellation of task t ends with. In the await of line 32 the
\* CancelledError is raised inside the try, the bare except of lines 33-34
\* catches it, and the coroutine returns (response, None).
CancelOutcome(i, t) ==
    IF t.st = "body"
    THEN [kind |-> "ok", of |-> i, url |-> t.url, parsedData |-> None]
    ELSE Cancelled(i)

\* The caller is cancelled (asyncio.run on KeyboardInterrupt, or a cancel of
\* its task) while suspended in line 68: gather cancels every child that is
\* not done.
FetchResults_abort ==
    /\ pc = "fr_join"
    /\ ~AllDone
    /\ aborted' = {i \in 1..Len(tasks) : tasks[i].st # "done"}
    /\ pc' = "fr_cancel"
    /\ UNCHANGED <<file, err, printed, checkVars, username, tasks, order, results>>
    /\ UNCHANGED otherVars

\* The CancelledError is thrown into task i at its next step.
DoAsyncRequest_cancel(i) ==
    /\ pc = "fr_cancel"
    /\ tasks[i].st # "done"
    /\ tasks' = [tasks EXCEPT ![i].st = "done",
                              ![i].out = CancelOutcome(i, tasks[i])]
    /\ order' = Append(order, i)
    /\ UNCHANGED <<pc, file, err, printed, checkVars, username, results, aborted>>
    /\ UNCHANGED otherVars

\* Every child is done: the await of line 68 raises CancelledError, the
\* async with block closes the session and the exception leaves the run.
FetchResults_cancelled ==
    /\ pc = "fr_cancel"
    /\ AllDone
    /\ Raise("CancelledError")
    /\ UNCHANGED <<file, printed, checkVars, fetchVars>>
    /\ UNCHANGED otherVars

\* Lines 58 and 69: the session is closed and fetchResults returns.
FetchResults_exit ==
    /\ pc = "fr_exit"
    /\ pc' = "fr_returned"
    /\ UNCHANGED <<file, err, printed, checkVars, fetchVars>>
    /\ UNCHANGED otherVars

\* Lines 74-75.
VerifyUsername_print ==
    /\ pc = "fr_returned"
    /\ printed' = printed \o [i \in 1..Len(results) |-> results[i].kind]
    /\ pc' = "vu_done"
    /\ UNCHANGED <<file, err, checkVars, fetchVars>>
    /\ UNCHANGED otherVars

\* The catalog another session stores while this one is probing.
OtherCatalog == Catalog(MaxSites, TRUE, 1)

RunInFlight == pc \in {"fr_read", "fr_loop", "fr_gather", "fr_join"}

\* Another session's downloadList, line 46: the file is truncated.
OtherSession_open ==
    /\ RunInFlight
    /\ file.exists
    /\ file.text # <<>>
    /\ file' = FileOf(<<>>)
    /\ UNCHANGED <<pc, err, printed, checkVars, fetchVars>>
    /\ UNCHANGED otherVars

\* Another session's downloadList, line 47: its document is in the file.
OtherSession_dump ==
    /\ RunInFlight
    /\ file = FileOf(<<>>)
    /\ file' = FileOf(json_dump(OtherCatalog))
    /\ UNCHANGED <<pc, err, printed, checkVars, fetchVars>>
    /\ UNCHANGED otherVars

NextFetch ==
    \/ VerifyUsername_start
    \/ FetchResults_read
    \/ FetchResults_loop
    \/ FetchResults_gather
    \/ \E i \in 1..Len(tasks) : DoAsyncRequest_send(i)
    \/ \E i \in 1..Len(tasks) : DoAsyncRequest_response(i)
    \/ \E i \in 1..Len(tasks) : DoAsyncRequest_json(i)
    \/ FetchResults_join
    \/ FetchResults_abort
    \/ \E i \in 1..Len(tasks) : DoAsyncRequest_cancel(i)
    \/ FetchResults_cancelled
    \/ FetchResults_exit
    \/ VerifyUsername_print
    \/ OtherSession_open
    \/ OtherSession_dump

Next == NextCheck \/ NextFetch

Spec == Init /\ [][Next]_vars


(***************************************************************************)
(* hashJSON taken alone: it is applied to two catalogs, which may differ   *)
(* in the insertion order of the keys of any of their objects only, and    *)
(* line 85 then compares the digests.                                      *)
(***************************************************************************)
\* A catalog of n sites whose top-level keys are in order top and whose
\* k-th site has its keys in order sl[k].
KeyedCatalog(n, rev, top, sl) ==
    LET sites == [k \in 1..n |-> Site(IF rev THEN n + 1 - k ELSE k, sl[k])]
    IN IF top = 1
       THEN Obj(<< <<"sites", sites>>, <<"license", "CC">> >>)
       ELSE Obj(<< <<"license", "CC">>, <<"sites", sites>> >>)

KeyedCatalogs ==
    UNION { { KeyedCatalog(n, rev, top, sl) : top \in 1..2, sl \in [1..n -> 1..2] } :
            n \in 0..MaxSites, rev \in BOOLEAN }

\* Pairs of catalogs, with the same content in two key orders or not.
HashInputs == KeyedCatalogs \X KeyedCatalogs

\* The session and the manager are not part of this.
SessionIdle ==
    /\ file = NoFile
    /\ file0 = NoFile
    /\ err = "none"
    /\ printed = <<>>
    /\ data = None
    /\ currentListHash = NoHash
    /\ remoteListHash = NoHash
    /\ response = NoResponse
    /\ dlResponse = NoResponse
    /\ parsedData = None
    /\ wrote = FALSE
    /\ username = NoUser
    /\ tasks = <<>>
    /\ order = <<>>
    /\ results = <<>>
    /\ aborted = {}

ManagerAbsent ==
    /\ platforms = <<>>
    /\ categories = <<>>
    /\ ret = NoRet
    /\ lastOp = NoOp
    /\ prePlatforms = <<>>
    /\ preCategories = <<>>
    /\ configFile = NoConfig
    /\ loadedFrom = "none"

InitHash ==
    /\ pc = "hash"
    /\ SessionIdle
    /\ ManagerAbsent
    /\ hashed \in HashInputs
    /\ digests = <<>>

\* Lines 50-53, for each of the two documents.
HashJSON_call ==
    /\ pc = "hash"
    /\ digests' = <<hashJSON(hashed[1]), hashJSON(hashed[2])>>
    /\ pc' = "hash_cmp"
    /\ UNCHANGED <<file, err, printed, checkVars, fetchVars, pmVars, hashed>>

\* Line 85 on the two digests.
HashJSON_compare ==
    /\ pc = "hash_cmp"
    /\ pc' = IF ListChanged(digests[1], digests[2]) THEN "hash_changed" ELSE "hash_same"
    /\ UNCHANGED <<file, err, printed, checkVars, fetchVars, pmVars, hashVars>>

NextHash == HashJSON_call \/ HashJSON_compare

SpecHash == InitHash /\ [][NextHash]_vars

(***************************************************************************)
(* PlatformURLManager (platform_manager.py). platforms and categories are   *)
(* dicts, modelled as functions; a URL template is a token sequence in      *)
(* which "{}" is the placeholder of str.format.                             *)
(***************************************************************************)
\* Lines 70-128: the default platforms, name and URL template, in order.
DefaultPlatformList ==
    << <<"Bandcamp", <<"https://bandcamp.com/", "{}">> >>,
       <<"Chess.com", <<"https://www.chess.com/member/", "{}">> >>,
       <<"Codeforces", <<"https://codeforces.com/profile/", "{}">> >>,
       <<"DeviantArt", <<"https://www.deviantart.com/", "{}">> >>,
       <<"Disqus", <<"https://disqus.com/by/", "{}", "/">> >>,
       <<"DockerHub", <<"https://hub.docker.com/u/", "{}">> >>,
       <<"Eyeem", <<"https://www.eyeem.com/u/", "{}">> >>,
       <<"GitLab", <<"https://gitlab.com/", "{}">> >>,
       <<"Hacker News", <<"https://news.ycombinator.com/user?id=", "{}">> >>,
       <<"Hackerearth", <<"https://www.hackerearth.com/@", "{}">> >>,
       <<"Imgur", <<"https://imgur.com/user/", "{}">> >>,
       <<"Instructables", <<"https://www.instructables.com/member/", "{}">> >>,
       <<"Keybase", <<"https://keybase.io/", "{}">> >>,
       <<"Livejournal", <<"https://", "{}", ".livejournal.com">> >>,
       <<"Patreon", <<"https://www.patreon.com/", "{}">> >>,
       <<"Reddit", <<"https://www.reddit.com/user/", "{}">> >>,
       <<"SoundCloud", <<"https://soundcloud.com/", "{}">> >>,
       <<"Spotify", <<"https://open.spotify.com/user/", "{}">> >>,
       <<"Steam", <<"https://steamcommunity.com/user/", "{}">> >>,
       <<"Telegram", <<"https://t.me/", "{}">> >>,
       <<"TikTok", <<"https://www.tiktok.com/@", "{}">> >>,
       <<"Tumblr", <<"https://", "{}", ".tumblr.com">> >>,
       <<"Trello", <<"https://trello.com/u/", "{}">> >>,
       <<"Twitch", <<"https://www.twitch.tv/", "{}">> >>,
       <<"Twitter", <<"https://twitter.com/", "{}">> >>,
       <<"Vimeo", <<"https://vimeo.com/", "{}">> >>,
       <<"YouTube", <<"https://www.youtube.com/", "{}">> >>,
       <<"About.me", <<"https://about.me/", "{}">> >>,
       <<"Academia.edu", <<"https://independent.academia.edu/", "{}">> >>,
       <<"AngelList", <<"https://angel.co/", "{}">> >>,
       <<"Behance", <<"https://www.behance.net/", "{}">> >>,
       <<"Bitbucket", <<"https://bitbucket.org/", "{}">> >>,
       <<"Blogger", <<"https://", "{}", ".blogspot.com">> >>,
       <<"Codepen", <<"https://codepen.io/", "{}">> >>,
       <<"Dribbble", <<"https://dribbble.com/", "{}">> >>,
       <<"Etsy", <<"https://www.etsy.com/shop/", "{}">> >>,
       <<"Facebook", <<"https://www.facebook.com/", "{}">> >>,
       <<"Flickr", <<"https://www.flickr.com/people/", "{}">> >>,
       <<"Freelancer", <<"https://www.freelancer.com/u/", "{}">> >>,
       <<"Goodreads", <<"https://www.goodreads.com/user/show/", "{}">> >>,
       <<"Instagram", <<"https://www.instagram.com/", "{}">> >>,
       <<"Last.fm", <<"https://www.last.fm/user/", "{}">> >>,
       <<"LinkedIn", <<"https://www.linkedin.com/in/", "{}">> >>,
       <<"Medium", <<"https://medium.com/@", "{}">> >>,
       <<"Pinterest", <<"https://www.pinterest.com/", "{}">> >>,
       <<"Product Hunt", <<"https://www.producthunt.com/@", "{}">> >>,
       <<"Quora", <<"https://www.quora.com/profile/", "{}">> >>,
       <<"ResearchGate", <<"https://www.researchgate.net/profile/", "{}">> >>,
       <<"Snapchat", <<"https://www.snapchat.com/add/", "{}">> >>,
       <<"TripAdvisor", <<"https://www.tripadvisor.com/members/", "{}">> >>,
       <<"VK", <<"https://vk.com/", "{}">> >>,
       <<"Wikipedia", <<"https://en.wikipedia.org/wiki/User:", "{}">> >>,
       <<"Duolingo", <<"https://www.duolingo.com/profile/", "{}">> >>,
       <<"smule", <<"https://www.smule.com/", "{}">> >>,
       <<"TryHackMe", <<"https://tryhackme.com/p/", "{}">> >>,
       <<"Hackerrank", <<"https://www.hackerrank.com/", "{}">> >>,
       <<"lichess.org", <<"https://lichess.org/@/", "{}">> >> >>

\* Lines 131-154: the default categories.
DefaultCategoryList ==
    << <<"social",
          <<"Facebook", "Twitter", "Instagram", "LinkedIn", "Pinterest", "Snapchat", "TikTok", "Reddit", "Tumblr", "VK">> >>,
       <<"professional",
          <<"LinkedIn", "GitHub", "GitLab", "Bitbucket", "DockerHub", "Behance", "Dribbble", "Freelancer", "AngelList", "Product Hunt">> >>,
       <<"creative",
          <<"DeviantArt", "Behance", "Dribbble", "SoundCloud", "Bandcamp", "YouTube", "Vimeo", "Flickr", "Etsy", "Medium">> >>,
       <<"gaming",
          <<"Steam", "Twitch", "Chess.com", "lichess.org", "TryHackMe">> >>,
       <<"tech",
          <<"GitHub", "GitLab", "Bitbucket", "DockerHub", "Codeforces", "Hackerrank", "Hackerearth", "Hacker News", "Codepen">> >>,
       <<"education",
          <<"Academia.edu", "ResearchGate", "Duolingo", "Quora">> >> >>

Range(s) == {s[i] : i \in 1..Len(s)}

\* The dict a list of <<key, value>> pairs denotes.
DictOf(l) ==
    [k \in {l[i][1] : i \in 1..Len(l)} |->
        l[CHOOSE i \in 1..Len(l) : l[i][1] = k][2]]

\* _load_default_platforms.
DefaultPlatforms == DictOf(DefaultPlatformList)

DefaultCategories == DictOf(DefaultCategoryList)

\* The truth value of an Optional[str]: None and "" are false.
Truthy(o) == o.given /\ o.v # <<>>

StrRet(v) == [t |-> "str", v |-> v]

BoolRet(b) == [t |-> "bool", v |-> IF b THEN <<"True">> ELSE <<"False">>]

NoneRet == [t |-> "None", v |-> <<>>]

RaiseRet(e) == [t |-> "raise", v |-> <<e>>]

Placeholders(tpl) == Cardinality({k \in 1..Len(tpl) : tpl[k] = "{}"})

\* url_template.format(username): one positional argument.
Format(tpl, user) ==
    IF Placeholders(tpl) > 1 THEN RaiseRet("IndexError")
    ELSE StrRet(replace(tpl, "{}", user))

\* Variant of SetTemplate: an existing entry is kept (dict.setdefault).
SetTemplate_keep(pl, p, tpl) ==
    [n \in DOMAIN pl \cup {p} |-> IF n \in DOMAIN pl THEN pl[n] ELSE tpl]

\* Line 212: self.platforms[platform_name] = url_template.
SetTemplate(pl, p, tpl) ==
    [n \in DOMAIN pl \cup {p} |-> IF n = p THEN tpl ELSE pl[n]]

\* Variant of AddToCategory without the membership test of line 217.
AddToCategory_always(list, p) == Append(list, p)

\* Lines 217-218.
AddToCategory(list, p) == IF p \in Range(list) THEN list ELSE Append(list, p)

\* Lines 216-220, for one category.
PutInCategory(cats, c, p) ==
    IF c \in DOMAIN cats
    THEN [cats EXCEPT ![c] = AddToCategory(cats[c], p)]
    ELSE [k \in DOMAIN cats \cup {c} |-> IF k = c THEN <<p>> ELSE cats[k]]

RECURSIVE PutInCategories(_, _, _)
\* Lines 215-220: the loop over the categories argument.
PutInCategories(cats, cs, p) ==
    IF cs = <<>> THEN cats
    ELSE PutInCategories(PutInCategory(cats, Head(cs), p), Tail(cs), p)

\* add_platform; cs is the Optional list of categories.
add_platform(pl, cats, p, tpl, cs) ==
    [platforms |-> SetTemplate(pl, p, tpl),
     categories |-> IF cs.given /\ cs.v # <<>>
                    THEN PutInCategories(cats, cs.v, p)
                    ELSE cats]

\* Lines 237-238: list.remove drops the first occurrence.
RemoveFirst(list, p) ==
    IF p \notin Range(list) THEN list
    ELSE LET i == CHOOSE k \in 1..Len(list) :
                    list[k] = p /\ \A j \in 1..(k - 1) : list[j] # p
         IN SubSeq(list, 1, i - 1) \o SubSeq(list, i + 1, Len(list))

\* remove_platform.
remove_platform(pl, cats, p) ==
    IF p \in DOMAIN pl
    THEN [platforms |-> [n \in DOMAIN pl \ {p} |-> pl[n]],
          categories |-> [c \in DOMAIN cats |-> RemoveFirst(cats[c], p)],
          ret |-> BoolRet(TRUE)]
    ELSE [platforms |-> pl, categories |-> cats, ret |-> BoolRet(FALSE)]

\* get_profile_url: lines 194-201 test the truth of the template and of the
\* fallback, not their presence.
get_profile_url(pl, platform_name, user, fallback_url) ==
    LET url_template == IF platform_name \in DOMAIN pl
                        THEN Some(pl[platform_name]) ELSE NoneStr
    IN IF Truthy(url_template) THEN Format(url_template.v, user)
       ELSE IF Truthy(fallback_url) THEN StrRet(fallback_url.v)
       ELSE StrRet(<<"Unknown platform: ", platform_name>>)

\* The arguments the calls are made with.
PlatformNames == {"GitHub", "TestPlatform"}

Templates == {<<"https://test.com/", "{}">>, <<>>}

CategoryArgs ==
    {NoneStr, Some(<<>>), Some(<<"testing">>), Some(<<"social", "testing">>),
     Some(<<"testing", "testing">>)}

Fallbacks == {NoneStr, Some(<<"https://example.com/testuser">>)}

PMUsers == {<<"testuser">>}

\* A file at config_path holding the two maps.
Config(pl, cats) == [exists |-> TRUE, platforms |-> pl, categories |-> cats]

\* The files the manager is constructed over: none, or a hand-written map
\* whose category list names its one platform twice.
ConfigFiles ==
    {NoConfig,
     Config([n \in {"TestPlatform"} |-> <<"https://test.com/", "{}">>],
            [c \in {"testing"} |-> <<"TestPlatform", "TestPlatform">>])}

\* save_platforms: the two maps as the document at config_path.
save_platforms(pl, cats) == Config(pl, cats)

\* load_platforms: the maps of the file at config_path; without a file the
\* default maps, which are then saved to config_path.
load_platforms(f) ==
    IF f.exists
    THEN [platforms |-> f.platforms, categories |-> f.categories,
          configFile |-> f, loadedFrom |-> "config"]
    ELSE [platforms |-> DefaultPlatforms, categories |-> DefaultCategories,
          configFile |-> save_platforms(DefaultPlatforms, DefaultCategories),
          loadedFrom |-> "default"]

\* PlatformURLManager(config_path): the state after __init__.
InitPM ==
    /\ pc = "manager"
    /\ SessionIdle
    /\ hashed = <<>>
    /\ digests = <<>>
    /\ \E f \in ConfigFiles :
         LET m == load_platforms(f)
         IN /\ platforms = m.platforms
            /\ categories = m.categories
            /\ prePlatforms = m.platforms
            /\ preCategories = m.categories
            /\ configFile = m.configFile
            /\ loadedFrom = m.loadedFrom
    /\ ret = NoRet
    /\ lastOp = NoOp

Call_add_platform(p, tpl, cs) ==
    /\ pc = "manager"
    /\ LET r == add_platform(platforms, categories, p, tpl, cs)
       IN /\ platforms' = r.platforms
          /\ categories' = r.categories
    /\ ret' = NoneRet
    /\ lastOp' = [NoOp EXCEPT !.op = "add", !.p = p, !.tpl = tpl, !.cats = cs]
    /\ prePlatforms' = platforms
    /\ preCategories' = categories
    /\ UNCHANGED <<configFile, loadedFrom, sessionVars, hashVars>>

Call_remove_platform(p) ==
    /\ pc = "manager"
    /\ LET r == remove_platform(platforms, categories, p)
       IN /\ platforms' = r.platforms
          /\ categories' = r.categories
          /\ ret' = r.ret
    /\ lastOp' = [NoOp EXCEPT !.op = "remove", !.p = p]
    /\ prePlatforms' = platforms
    /\ preCategories' = categories
    /\ UNCHANGED <<configFile, loadedFrom, sessionVars, hashVars>>

Call_get_profile_url(p, user, fb) ==
    /\ pc = "manager"
    /\ ret' = get_profile_url(platforms, p, user, fb)
    /\ lastOp' = [NoOp EXCEPT !.op = "get", !.p = p, !.user = user, !.fallback = fb]
    /\ prePlatforms' = platforms
    /\ preCategories' = categories
    /\ UNCHANGED <<platforms, categories, configFile, loadedFrom, sessionVars,
                   hashVars>>

NextPM ==
    \/ \E p \in PlatformNames, tpl \in Templates, cs \in CategoryArgs :
         Call_add_platform(p, tpl, cs)
    \/ \E p \in PlatformNames : Call_remove_platform(p)
    \/ \E p \in PlatformNames, user \in PMUsers, fb \in Fallbacks :
         Call_get_profile_url(p, user, fb)

SpecPM == InitPM /\ [][NextPM]_vars

(***************************************************************************)
(* Properties                                                              *)
(***************************************************************************)
\* The session is still in checkUpdates (or ended there).
InCheck == username = NoUser

StartedAbsent == InCheck /\ ~file0.exists

StartedPresent == InCheck /\ file0.exists

\* checkUpdates started with a file that holds a usable catalog.
StartedWithCatalog ==
    /\ StartedPresent
    /\ IsJSON(file0.text)
    /\ Loads(file0.text).t = "obj"
    /\ HasKey(Loads(file0.text).kv, "sites")

\* The document the catalog file holds, when it holds one.
LocalCatalog == readList(file).data

HoldsDocument(f) == f.exists /\ IsJSON(f.text)

\* A document with a sites array: a usable catalog.
IsCatalog(doc) == doc.t = "obj" /\ HasKey(doc.kv, "sites")

FailedExchange(ex) ==
    \/ ex.kind = "neterror"
    \/ ex.kind = "ok" /\ (~IsJSON(ex.body) \/ ~IsCatalog(Loads(ex.body)))

NonJSON(ex) == ex.kind = "ok" /\ ~IsJSON(ex.body)

Returned == pc \in {"fr_exit", "fr_returned", "vu_done"}

\* The URL fetchResults probes for site i of the catalog it read.
SiteUrl(i) ==
    replace(Get(Get(data.kv, "sites")[i].kv, "uri_check"), "{account}", username)

\* C1: when fetchResults returns, results has one entry per site of the
\* catalog, and entry i is the outcome of the probe of site i, whatever the
\* order in which the probes completed.
C1_ResultsInCatalogOrder ==
    Returned =>
        /\ Len(results) = Len(Get(data.kv, "sites"))
        /\ \A i \in 1..Len(results) :
             /\ results[i].kind \in {"ok", "exc"}
             /\ results[i].of = i
             /\ tasks[i].url = SiteUrl(i)
             /\ results[i].kind = "ok" => results[i].url = SiteUrl(i)

\* C1 witness: a two-site run returned although site 2 completed first.
C1_Witness ==
    /\ pc = "fr_returned"
    /\ Len(results) = 2
    /\ order = <<2, 1>>

\* C2: a network failure of a probe ends up in that probe's slot only; every
\* other probe completes and returns its own response, and no network
\* failure leaves fetchResults as an exception.
C2_FailuresStayLocal ==
    /\ (~InCheck /\ pc = "raised") => err # "NetworkError"
    /\ Returned =>
         /\ Len(results) = Len(tasks)
         /\ \A i \in 1..Len(tasks) :
              /\ tasks[i].st = "done"
              /\ tasks[i].ex.kind = "neterror" => results[i] = AsyncRaise(i)
              /\ tasks[i].ex.kind = "ok" =>
                   /\ results[i].kind = "ok"
                   /\ results[i].of = i
                   /\ results[i].url = SiteUrl(i)
                   /\ results[i].parsedData =
                        (IF tasks[i].ex.body = Html THEN None ELSE FoundDoc)

\* C2 witness: site 1 failed first, site 2 then answered, and both are in
\* the returned results.
C2_Witness ==
    /\ pc = "fr_returned"
    /\ Len(results) = 2
    /\ order = <<1, 2>>
    /\ results[1].kind = "exc"
    /\ results[2].kind = "ok"

\* C3: checkUpdates that started without a catalog file and completed leaves
\* a file that holds the document the download fetched; when the remote
\* answered with a JSON document the local catalog equals it.
C3_AbsentEndsPresent ==
    (StartedAbsent /\ pc = "cu_done") =>
        /\ file.exists
        /\ readList(file).raised = "none"
        /\ LocalCatalog = parsedData
        /\ IsJSON(dlResponse.body) =>
             /\ LocalCatalog = Loads(dlResponse.body)
             /\ file.text = dlResponse.body

\* C3 witness: started Absent, ended with a two-site catalog whose keys are
\* not in sorted order.
C3_Witness ==
    /\ StartedAbsent
    /\ pc = "cu_done"
    /\ file = FileOf(Dump(Catalog(2, FALSE, 1)))

\* C4: once checkUpdates, started Present, has found the remote fingerprint
\* equal to the local one, the file is never opened for writing and keeps
\* its content.
C4_NoWriteWhenEqual ==
    (StartedPresent /\ remoteListHash # NoHash /\ remoteListHash = currentListHash) =>
        /\ ~wrote
        /\ file = file0
        /\ pc \in {"cu_cmp", "cu_done"}

\* C4 witness: the check completed with equal fingerprints although the
\* remote text differs from the local one in key order.
C4_Witness ==
    /\ StartedPresent
    /\ pc = "cu_done"
    /\ remoteListHash = currentListHash
    /\ ~wrote
    /\ response.body # file0.text

\* C5: checkUpdates that started Present, found the remote fingerprint
\* different and completed has written the file; the file holds the document
\* downloadList fetched, which is the compared remote document when the
\* remote answered both requests alike.
C5_ReplacedWhenDifferent ==
    (StartedPresent /\ pc = "cu_done" /\ remoteListHash # currentListHash) =>
        /\ wrote
        /\ file.exists
        /\ readList(file).raised = "none"
        /\ LocalCatalog = parsedData
        /\ dlResponse = response =>
             /\ LocalCatalog = data
             /\ hashJSON(LocalCatalog) = remoteListHash
             /\ hashJSON(LocalCatalog) # hashJSON(readList(file0).data)

\* C5 witness: a one-site local catalog was replaced by the two-site remote
\* catalog.
C5_Witness ==
    /\ StartedPresent
    /\ pc = "cu_done"
    /\ file0 = FileOf(Dump(Catalog(1, FALSE, 1)))
    /\ dlResponse = response
    /\ file = FileOf(Dump(Catalog(2, FALSE, 1)))

\* C6 (as claimed): when a remote fetch fails while a catalog is Present,
\* the local file keeps its content and the failure is reported.
C6_FetchFailureKeepsLocal ==
    (StartedWithCatalog /\ (FailedExchange(response) \/ FailedExchange(dlResponse))) =>
        /\ file = file0
        /\ pc = "cu_done" => err # "none"

\* C7 (as claimed): when the remote fetch fails while the catalog is Absent,
\* checkUpdates does not complete as if a catalog had been installed.
C7_AbsentFetchFailureReported ==
    (StartedAbsent /\ FailedExchange(dlResponse) /\ pc = "cu_done") =>
        /\ err # "none"
        /\ HoldsDocument(file) /\ IsCatalog(LocalCatalog)

\* C8 (as claimed): after a crash or an I/O failure during an update the
\* catalog file is the catalog it was before, or holds the complete new
\* document.
C8_AtomicSave ==
    (StartedWithCatalog /\ pc \in {"crashed", "raised"}) =>
        \/ file = file0
        \/ file = FileOf(json_dump(parsedData))

\* C9: an exchange that succeeds with a body that is not JSON never fails the
\* caller: doSyncRequest and doAsyncRequest return parsedData None.
C9_NonJSONIsNotAnError ==
    /\ (InCheck /\ NonJSON(response) /\ dlResponse = NoResponse) =>
         /\ err = "none"
         /\ pc \in {"cu_cmp", "dl_fetch", "cu_done"}
         /\ data = None
    /\ (InCheck /\ NonJSON(dlResponse)) =>
         /\ err \in {"none", "IOError"}
         /\ pc \in {"dl_open", "dl_dump", "cu_done", "raised", "crashed"}
         /\ parsedData = None
    /\ \A i \in 1..Len(tasks) :
         (NonJSON(tasks[i].ex) /\ tasks[i].st = "done") =>
             /\ tasks[i].out.kind = "ok"
             /\ tasks[i].out.parsedData = None
             /\ err \in {"none", "CancelledError"}

\* C9 witness: both a list request and a probe got a non-JSON body and the
\* session went on.
C9_Witness ==
    /\ pc = "fr_returned"
    /\ \E i \in 1..Len(results) : NonJSON(tasks[i].ex) /\ results[i].kind = "ok"

\* C9 witness for the synchronous request.
C9_WitnessSync ==
    /\ pc = "cu_cmp"
    /\ NonJSON(response)
    /\ data = None

\* C10: no probe runs before every probe of the run has been launched by
\* gather, and the caller waits for probes only in the await of line 68,
\* where all of them are outstanding together.
C10_AllLaunchedBeforeJoin ==
    /\ pc \in {"fr_loop", "fr_gather"} =>
         \A i \in 1..Len(tasks) : tasks[i].st = "created"
    /\ pc = "fr_join" =>
         /\ Len(tasks) = Len(Get(data.kv, "sites"))
         /\ \A i \in 1..Len(tasks) : tasks[i].st # "created"
    /\ \A i \in 1..Len(tasks) :
         tasks[i].st \notin {"created", "scheduled"} =>
             /\ pc \in {"fr_join", "fr_cancel", "raised",
                       "fr_exit", "fr_returned", "vu_done"}
             /\ Len(tasks) = Len(Get(data.kv, "sites"))
             /\ \A j \in 1..Len(tasks) : tasks[j].st # "created"

\* C10 witness: probe 2 has completed while probe 1, launched with it, has
\* not yet started.
C10_Witness ==
    /\ pc = "fr_join"
    /\ Len(tasks) = 2
    /\ tasks[1].st = "scheduled"
    /\ tasks[2].st = "done"


\* C11 (as claimed): on return every probe has settled, and after an abort
\* every probe that was outstanding ends cancelled: none completes normally.
C11_NoProbeOutlivesRun ==
    /\ Returned => AllDone
    /\ (~InCheck /\ pc = "raised" /\ err = "CancelledError") => AllDone
    /\ \A i \in aborted :
         tasks[i].st = "done" => tasks[i].out.kind = "cancelled"


\* C12: every probe of a run is built from the one document fetchResults
\* read on line 57, a complete catalog, whatever happens to the catalog file
\* while the run is in flight.
C12_SingleSnapshot ==
    (~InCheck /\ Len(tasks) > 0) =>
        /\ data \in Catalogs
        /\ Len(tasks) <= Len(Get(data.kv, "sites"))
        /\ \A i \in 1..Len(tasks) : tasks[i].url = SiteUrl(i)
        /\ pc \notin {"fr_loop", "fr_gather"} =>
             Len(tasks) = Len(Get(data.kv, "sites"))

\* C12 witness: the file was replaced by another catalog while the run was
\* in flight, and the run probes both sites of the catalog it read.
C12_Witness ==
    /\ pc = "fr_join"
    /\ Len(tasks) = 2
    /\ file = FileOf(Dump(OtherCatalog))
    /\ data # OtherCatalog
    /\ tasks[2].st = "request"


\* The place of a site in the pool, by its name.
PoolIndex(site) ==
    CHOOSE j \in 1..Len(Names) : Names[j] = Get(site.kv, "name")

\* The URL to probe for pool site j, written out for each template shape.
ProbedUrl(j, user) ==
    IF j % 3 = 1 THEN <<Hosts[j]>> \o user \o <<"/profile">>
    ELSE IF j % 3 = 2 THEN <<Hosts[j], "static">>
    ELSE <<Hosts[j]>> \o user

HasPlaceholder(uri) == \E k \in 1..Len(uri) : uri[k] = "{account}"

\* C14: the URL of every probe is its site's uri_check with {account}
\* replaced by the username, and uri_check itself when it has no placeholder.
C14_UrlSubstitution ==
    ~InCheck =>
        \A i \in 1..Len(tasks) :
            LET site == Get(data.kv, "sites")[i]
                uri == Get(site.kv, "uri_check")
            IN /\ tasks[i].url = ProbedUrl(PoolIndex(site), username)
               /\ ~HasPlaceholder(tasks[i].url)
               /\ ~HasPlaceholder(uri) => tasks[i].url = uri

\* C14 witness: one run probes a site whose template has the placeholder
\* and a site whose template has none.
C14_Witness ==
    /\ pc = "fr_join"
    /\ username = <<"alice">>
    /\ \E i, k \in 1..Len(tasks) :
         /\ tasks[i].url = <<"a.example/", "alice", "/profile">>
         /\ tasks[k].url = <<"b.example/u/", "static">>
         /\ tasks[k].st = "request"

\* C18 (as claimed): the document checkUpdates writes when it updates is the
\* remote document whose fingerprint it compared.
C18_WritesComparedDocument ==
    (StartedPresent /\ wrote /\ pc = "cu_done") =>
        /\ file = FileOf(json_dump(data))
        /\ hashJSON(LocalCatalog) = remoteListHash


KeysOf(kv) == {kv[j][1] : j \in 1..Len(kv)}

\* Two objects with the same keys and, under each key, the same value.
SameObject(a, b) ==
    /\ KeysOf(a.kv) = KeysOf(b.kv)
    /\ \A k \in KeysOf(a.kv) \ {"sites"} : Get(a.kv, k) = Get(b.kv, k)

\* Two catalogs that differ at most in the key order of their objects.
SameUpToKeyOrder(a, b) ==
    /\ SameObject(a, b)
    /\ LET sa == Get(a.kv, "sites")
           sb == Get(b.kv, "sites")
       IN /\ Len(sa) = Len(sb)
          /\ \A i \in 1..Len(sa) : SameObject(sa[i], sb[i])

\* C13: hashJSON gives two catalogs that differ only in the order of the
\* keys of their objects, nested ones included, the same digest, and the
\* comparison of checkUpdates then finds no change.
C13_KeyOrderIndependent ==
    (pc \in {"hash_cmp", "hash_changed", "hash_same"}
       /\ SameUpToKeyOrder(hashed[1], hashed[2])) =>
        /\ digests[1] = digests[2]
        /\ pc # "hash_changed"

\* C13 witness: the two catalogs differ only in the key order of their
\* second site and were found unchanged.
C13_Witness ==
    /\ pc = "hash_same"
    /\ hashed[1] = KeyedCatalog(2, FALSE, 1, <<1, 1>>)
    /\ hashed[2] = KeyedCatalog(2, FALSE, 1, <<1, 2>>)
    /\ hashed[1] # hashed[2]

\* The categories an add_platform call named.
NamedCategories(cs) == IF cs.given THEN Range(cs.v) ELSE {}

\* A list without the entries equal to p.
Without(list, p) == SelectSeq(list, LAMBDA n : n # p)

\* C15: get_profile_url returns the template of a platform that is in the map
\* with the username inserted; for a platform not in the map it returns the
\* fallback when one is given and "Unknown platform: <platform>" otherwise;
\* it leaves platforms and categories as they were.
C15_ProfileUrl ==
    lastOp.op = "get" =>
        /\ platforms = prePlatforms
        /\ categories = preCategories
        /\ lastOp.p \in DOMAIN platforms =>
             ret = StrRet(replace(platforms[lastOp.p], "{}", lastOp.user))
        /\ (lastOp.p \notin DOMAIN platforms /\ lastOp.fallback.given) =>
             ret = StrRet(lastOp.fallback.v)
        /\ (lastOp.p \notin DOMAIN platforms /\ ~lastOp.fallback.given) =>
             ret = StrRet(<<"Unknown platform: ", lastOp.p>>)

\* C16: after add_platform(p, t, cats) the template of p is t, p is in every
\* category of cats, a category that did not exist holds p alone, and every
\* other template and every other member of every category is as before.
C16_AddPlatform ==
    lastOp.op = "add" =>
        LET p == lastOp.p
            named == NamedCategories(lastOp.cats)
        IN /\ DOMAIN platforms = DOMAIN prePlatforms \cup {p}
           /\ platforms[p] = lastOp.tpl
           /\ \A n \in DOMAIN prePlatforms \ {p} : platforms[n] = prePlatforms[n]
           /\ DOMAIN categories = DOMAIN preCategories \cup named
           /\ \A c \in named : p \in Range(categories[c])
           /\ \A c \in named \ DOMAIN preCategories : categories[c] = <<p>>
           /\ \A c \in DOMAIN preCategories \ named :
                categories[c] = preCategories[c]
           /\ \A c \in DOMAIN preCategories \cap named :
                Without(categories[c], p) = Without(preCategories[c], p)

\* C16 witness: a platform that had another template was added again with
\* an existing category and a new one.
C16_Witness ==
    /\ lastOp.op = "add"
    /\ lastOp.cats = Some(<<"social", "testing">>)
    /\ lastOp.p \in DOMAIN prePlatforms
    /\ prePlatforms[lastOp.p] # lastOp.tpl
    /\ "testing" \notin DOMAIN preCategories
    /\ "social" \in DOMAIN preCategories

\* C17: remove_platform(p) with p in platforms returns True and leaves p
\* neither a key of platforms nor a member of any category; with p not in
\* platforms it returns False and changes neither map.
C17_RemovePlatform ==
    lastOp.op = "remove" =>
        IF lastOp.p \in DOMAIN prePlatforms
        THEN /\ ret = BoolRet(TRUE)
             /\ lastOp.p \notin DOMAIN platforms
             /\ \A c \in DOMAIN categories : lastOp.p \notin Range(categories[c])
        ELSE /\ ret = BoolRet(FALSE)
             /\ platforms = prePlatforms
             /\ categories = preCategories

\* C19: every platform name in a category list is a key of platforms, in
\* the default state and after every add_platform and remove_platform.
C19_ReferentialIntegrity ==
    loadedFrom = "default" =>
        \A c \in DOMAIN categories :
            \A n \in Range(categories[c]) : n \in DOMAIN platforms

\* No category list names a platform twice.
NoDuplicates ==
    \A c \in DOMAIN categories :
        \A i, j \in 1..Len(categories[c]) :
            categories[c][i] = categories[c][j] => i = j

\* C20: an add_platform call that repeats the call before it changes neither
\* map, and a manager started from the default maps never has a category
\* list that names a platform twice.
C20_AddIdempotent ==
    /\ [](loadedFrom = "default" => NoDuplicates)
    /\ [][(lastOp.op = "add" /\ lastOp' = lastOp)
            => (platforms' = platforms /\ categories' = categories)]_vars

\* C20 witness: from the default maps a platform was added with categories,
\* one of them named twice, and the same call made again changed nothing.
C20_Witness ==
    /\ loadedFrom = "default"
    /\ lastOp.op = "add"
    /\ lastOp.cats = Some(<<"testing", "testing">>)
    /\ platforms = prePlatforms
    /\ categories = preCategories
    /\ categories["testing"] = <<lastOp.p>>

====
